---------------------------- MODULE Spec2Model ----------------------------
(***************************************************************************)
(* Spray-tower calculator: the calculation pipeline (calculateSprayTower)  *)
(* and the compliance optimizer (optimizeForCompliance).                   *)
(*                                                                         *)
(* Numbers.  The program computes in IEEE doubles.  The model computes in  *)
(* exact rationals [n, d] in lowest terms, d > 0, extended with the three  *)
(* non-finite doubles: 1/0 is Infinity, -1/0 is -Infinity, 0/0 is NaN.     *)
(* Every comparison the optimizer takes (outlet > limit, outlet < best,    *)
(* i <= maxIterations * 0.4, ...) has the same outcome in doubles and in   *)
(* rationals for the inputs enumerated here: the compared values are       *)
(* either produced by the very same computation or differ by 10% or more, *)
(* and i <= maxIterations * 0.4 / 0.7 agrees with the exact comparison for *)
(* every maxIterations < 90.                                               *)
(*                                                                         *)
(* Result fields that need a square root or a logarithm (towerDiameter,    *)
(* numberOfTransferUnits, requiredHeight ...) are not part of the result   *)
(* record of this model; the fields kept are rational functions of the     *)
(* input, and overallKGa, whose correlation value is kept unevaluated.     *)
(***************************************************************************)
EXTENDS Integers, Sequences, FiniteSets, TLC

VARIABLES
    input,               \* the caller's CalculatorInput object, as the caller sees it
    inputAtCall,         \* history: the value of input when the call was made
    calls,               \* history: the calls that ended before this one, in order
    maxIterations,       \* the caller's maxIterations argument
    pc,                  \* position in optimizeForCompliance
    currentInput,        \* let currentInput
    results,             \* let results
    bestResults,         \* let bestResults (Null = null)
    bestInput,           \* let bestInput (Null = null)
    iterations,          \* let iterations
    convergenceReached,  \* let convergenceReached
    log,                 \* const log: string[]
    emissionLimits,      \* const emissionLimits
    targetOutletConcentration, \* const targetOutletConcentration
    requiredEfficiency,  \* const requiredEfficiency
    returned,            \* the OptimizationResult handed back (Null before the return)
    evaluations,         \* history: every calculateSprayTower call of this run, in order
    aiResponse,          \* the content of the AI model's answer for a report section
    aiAnalysis,          \* the sections of the report that are set: <<>> or <<content>>
    droplet,             \* the locals of a calculateDropletPhysics call
    wrapper,             \* a calculateSprayTowerWithCompliance call: its input and return
    calculator,          \* the SprayTowerCalculator component: its state and its timers
    session              \* the session gate: the browser's cookie and the last response

vars == <<input, inputAtCall, calls, maxIterations, pc, currentInput, results, bestResults, bestInput,
          iterations, convergenceReached, log, emissionLimits,
          targetOutletConcentration, requiredEfficiency, returned, evaluations,
          aiResponse, aiAnalysis, droplet, wrapper, calculator, session>>

\* The variables of the components beside the optimizer and the report.
componentVars == <<droplet, wrapper, calculator, session>>

\* The optimizer's and the report's variables.
optimizerVars ==
    <<input, inputAtCall, calls, maxIterations, pc, currentInput, results,
      bestResults, bestInput, iterations, convergenceReached, log,
      emissionLimits, targetOutletConcentration, requiredEfficiency, returned,
      evaluations, aiResponse, aiAnalysis>>

(***************************************************************************)
(* Bounds of the model.                                                    *)
(***************************************************************************)
MaxIterationsBound == 6

\* The number of calls made one after another in CallsSpec.
MaxCalls == 3

\* The longest AI response, in characters.
MaxResponseLen == 4

Null == [null |-> TRUE]

\* An optional field that is absent reads as undefined.
Undefined == [undefined |-> TRUE]

(***************************************************************************)
(* Arithmetic on doubles, held as extended rationals.                      *)
(***************************************************************************)
Abs(x) == IF x < 0 THEN 0 - x ELSE x

Sign(x) == IF x < 0 THEN 0 - 1 ELSE IF x > 0 THEN 1 ELSE 0

RECURSIVE Gcd(_, _)
Gcd(a, b) == IF b = 0 THEN a ELSE Gcd(b, a % b)

\* n/d in lowest terms with d >= 0; d = 0 gives Infinity, -Infinity or NaN.
Num(n, d) ==
    IF d = 0 THEN [n |-> Sign(n), d |-> 0]
    ELSE LET g == Gcd(Abs(n), Abs(d))
         IN  [n |-> Sign(d) * Sign(n) * (Abs(n) \div g), d |-> Abs(d) \div g]

I(k) == [n |-> k, d |-> 1]

NaN == [n |-> 0, d |-> 0]

IsNaN(a) == a.d = 0 /\ a.n = 0

IsFinite(a) == a.d > 0

\* The one element of a singleton set.  Only({e : x \in {a}}) evaluates the
\* argument a once and uses its value x in e: arguments are passed by value,
\* as the program passes them.
Only(S) == CHOOSE r \in S : TRUE

\* a * b; the factors are reduced crosswise first to keep the products small.
Mul(a0, b0) ==
    Only({IF a.d = 0 \/ b.d = 0 THEN Num(Sign(a.n) * Sign(b.n), 0)
          ELSE Only({Num(x.n * y.n, x.d * y.d) :
                         x \in {Num(a.n, b.d)}, y \in {Num(b.n, a.d)}}) :
              a \in {a0}, b \in {b0}})

\* a / b; x / 0 is +-Infinity, 0 / 0 and Infinity / Infinity are NaN.
Div(a0, b0) ==
    Only({IF b.d = 0 THEN (IF a.d = 0 \/ b.n = 0 THEN NaN ELSE I(0))
          ELSE IF b.n = 0 THEN Num(Sign(a.n), 0)
          ELSE IF a.d = 0 THEN Num(Sign(a.n) * Sign(b.n), 0)
          ELSE Mul(a, Num(b.d * Sign(b.n), Abs(b.n))) :
              a \in {a0}, b \in {b0}})

Add(a0, b0) ==
    Only({IF IsNaN(a) \/ IsNaN(b) THEN NaN
          ELSE IF a.d = 0 /\ b.d = 0 THEN (IF a.n = b.n THEN a ELSE NaN)
          ELSE IF a.d = 0 THEN a
          ELSE IF b.d = 0 THEN b
          ELSE Only({Num(a.n * (b.d \div g) + b.n * (a.d \div g),
                         (a.d \div g) * b.d) : g \in {Gcd(a.d, b.d)}}) :
              a \in {a0}, b \in {b0}})

Neg(a0) == Only({[n |-> 0 - a.n, d |-> a.d] : a \in {a0}})

Sub(a, b) == Add(a, Neg(b))

\* a > b as doubles compare: false whenever either side is NaN.
Gt(a0, b0) ==
    \E a \in {a0} : \E b \in {b0} :
        IF IsNaN(a) \/ IsNaN(b) THEN FALSE
        ELSE IF a.d = 0 /\ b.d = 0 THEN a.n > b.n
        ELSE IF a.d = 0 THEN a.n > 0
        ELSE IF b.d = 0 THEN b.n < 0
        ELSE a.n * b.d > b.n * a.d

Lt(a, b) == Gt(b, a)

\* a <= b as doubles compare (false on NaN).
Le(a0, b0) ==
    \E a \in {a0} : \E b \in {b0} : ~IsNaN(a) /\ ~IsNaN(b) /\ ~Gt(a, b)

\* Math.max(a, b): NaN if either is NaN.
Max(a0, b0) ==
    Only({IF IsNaN(a) \/ IsNaN(b) THEN NaN ELSE IF Gt(b, a) THEN b ELSE a :
              a \in {a0}, b \in {b0}})

\* The truthiness of an optional number: undefined, 0 and NaN are falsy.
Truthy(v) == v # Undefined /\ ~(v.n = 0)

\* No call of a component beside the optimizer and the report is under way.
DropletIdle == droplet = [pc |-> "NotCalled"]

WrapperIdle == wrapper = [pc |-> "NotCalled"]

CalculatorIdle == calculator = [pc |-> "NotMounted"]

SessionIdle == session = [pc |-> "NoRequest"]

ComponentsIdle == DropletIdle /\ WrapperIdle /\ CalculatorIdle /\ SessionIdle

(***************************************************************************)
(* Property tables.  POLLUTANT_LIBRARY and the emission-limit tables are   *)
(* plain object literals read with table[key]: a key that is not an own    *)
(* property but a member of Object.prototype ("constructor", "toString",   *)
(* ...) reads an inherited function, not undefined.                        *)
(***************************************************************************)
PollutantKeys == {"SO2", "HCl", "NH3", "H2S"}

ObjectPrototypeKeys == {"constructor", "toString", "valueOf", "hasOwnProperty"}

\* table[key] for an object literal whose own keys are PollutantKeys:
\* "entry" (the literal's value), "inherited" (a function of Object.prototype)
\* or "undefined".
Lookup(key) ==
    IF key \in PollutantKeys THEN "entry"
    ELSE IF key \in ObjectPrototypeKeys THEN "inherited"
    ELSE "undefined"

\* euLimits of calculateComplianceStatus, mg/Nm3
euLimits(type) ==
    CASE type = "SO2" -> I(200)
      [] type = "HCl" -> I(10)
      [] type = "NH3" -> I(50)
      [] type = "H2S" -> I(5)

\* Faulty variant: the optimizer's EU table holds other values than the
\* evaluator's.
euLimitsOpt_otherValues(type) ==
    CASE type = "SO2" -> I(400)
      [] type = "HCl" -> I(25)
      [] type = "NH3" -> I(100)
      [] type = "H2S" -> I(15)

\* euLimits of getEmissionLimits, mg/Nm3
euLimitsOpt(type) ==
    CASE type = "SO2" -> I(200)
      [] type = "HCl" -> I(10)
      [] type = "NH3" -> I(50)
      [] type = "H2S" -> I(5)

\* usLimits of getEmissionLimits, mg/Nm3
usLimitsOpt(type) ==
    CASE type = "SO2" -> I(400)
      [] type = "HCl" -> I(25)
      [] type = "NH3" -> I(100)
      [] type = "H2S" -> I(15)

\* table[type] || fallback; an inherited function is truthy and is returned
\* itself: as a number (emissionLimits * 0.9) it is NaN.
getEmissionLimits(framework, pollutantType) ==
    IF framework = "EU"
    THEN CASE Lookup(pollutantType) = "entry" -> euLimitsOpt(pollutantType)
           [] Lookup(pollutantType) = "inherited" -> NaN
           [] OTHER -> I(100)
    ELSE CASE Lookup(pollutantType) = "entry" -> usLimitsOpt(pollutantType)
           [] Lookup(pollutantType) = "inherited" -> NaN
           [] OTHER -> I(200)

(***************************************************************************)
(* The calculation pipeline.                                               *)
(***************************************************************************)
calculateGasProperties(gasStream) ==
    Only({[operatingTemp |-> operatingTemp,
           operatingPressure |-> operatingPressure,
           operatingGasFlow |->
               Mul(Mul(standardFlow_m3s, Div(operatingTemp, Num(27315, 100))),
                   Div(I(101325), operatingPressure))] :
              operatingTemp \in {Add(gasStream.temperature, Num(27315, 100))},
              operatingPressure \in {Mul(gasStream.pressure, I(1000))},
              standardFlow_m3s \in {Div(gasStream.gasFlowRate, I(3600))}})

calculateTowerSizing(operatingGasFlow, gasVelocity, lgRatio) ==
    Only({[towerArea |-> towerArea,
           liquidFlowRate |-> liquidFlowRate,
           liquidRate |-> Mul(liquidFlowRate, I(3600)),
           liquidFlux |-> Div(liquidFlowRate, towerArea)] :
              towerArea \in {Div(operatingGasFlow, gasVelocity)},
              liquidFlowRate \in {Mul(lgRatio, operatingGasFlow)}})

\* pollutantData.diffusivity is read unconditionally: a TypeError when
\* POLLUTANT_LIBRARY[pollutant.type] is undefined, and only then.
MassTransferThrows(pollutant) == Lookup(pollutant.type) = "undefined"

\* Lines 277-285.  0.1586 * G^0.8 * L^0.4 is a positive irrational number
\* whenever the branch is taken (liquidFlux > 0 needs gasVelocity > 0); it is
\* kept unevaluated, as the correlation of the quantities it is computed from.
calculatedKGa(gasProps, gasVelocity, liquidFlux) ==
    IF Gt(liquidFlux, I(0))
    THEN [correlation |-> "0.1586 * G^0.8 * L^0.4",
          operatingPressure |-> gasProps.operatingPressure,
          operatingTemp |-> gasProps.operatingTemp,
          gasVelocity |-> gasVelocity,
          liquidFluxLiterPerSm2 |-> Mul(liquidFlux, I(1000))]
    ELSE I(0)

\* Line 287: tower.kgaOverride || calculatedKGa
overallKGaOf(kgaOverride, calculated) ==
    IF Truthy(kgaOverride) THEN kgaOverride ELSE calculated

calculateMassTransfer(pollutant, tower, gasProps, gasVelocity, liquidFlux) ==
    Only({[dropletDiameter |-> dropletDiameter,
           relativeVelocity |-> relativeVelocity,
           interfacialArea |->
               IF Gt(relativeVelocity, I(0))
               THEN Div(Mul(I(6), liquidFlux),
                        Mul(relativeVelocity, dropletDiameter))
               ELSE I(0),
           overallKGa |->
               overallKGaOf(tower.kgaOverride,
                            calculatedKGa(gasProps, gasVelocity, liquidFlux))] :
              dropletDiameter \in {Mul(tower.dropletSize, Num(1, 1000))},
              relativeVelocity \in {gasVelocity}})

\* Faulty variant: the removed share taken for the remaining share.
outletConcentrationOf_removed(pollutant) ==
    Mul(pollutant.inletConcentration, pollutant.targetEfficiency)

\* calculatePerformance, line 70
outletConcentrationOf(pollutant) ==
    Mul(pollutant.inletConcentration, Sub(I(1), pollutant.targetEfficiency))

\* A finite non-zero number that is not rational (a logarithm, or a product
\* or quotient with one): its sign, and the expression it is the value of.
Sym(sign, expr) == [sign |-> sign, expr |-> expr]

IsSym(v) == "sign" \in DOMAIN v

\* v > 0, for a double, an unevaluated KGa correlation or a Sym
GtZero(v) ==
    IF IsSym(v) THEN v.sign > 0
    ELSE IF "correlation" \in DOMAIN v THEN TRUE
    ELSE Gt(v, I(0))

\* Math.log
Ln(x0) ==
    Only({IF IsNaN(x) \/ x.n < 0 THEN NaN
          ELSE IF x.n = 0 THEN Num(0 - 1, 0)
          ELSE IF x.d = 0 THEN x
          ELSE IF x.n = x.d THEN I(0)
          ELSE Sym(IF x.n > x.d THEN 1 ELSE 0 - 1, [ln |-> x]) : x \in {x0}})

\* Lines 74-77
numberOfTransferUnitsOf(pollutant, outletConcentration) ==
    IF Gt(outletConcentration, I(0))
    THEN Ln(Div(pollutant.inletConcentration, outletConcentration))
    ELSE I(0)

\* Line 81: (101325 * operatingGasFlow) / (8314.462618 * operatingTemp), kept
\* as the quotient it scales by the positive constant 101325 / 8314.462618.
molarGasFlowOf(operatingGasFlow, operatingTemp) ==
    [timesConstant |-> "101325 / 8314.462618",
     quotient |-> Div(operatingGasFlow, operatingTemp)]

\* Lines 85-88; the quotient taken is positive when the molar gas flow is.
sprayZoneVolumeOf(molarGasFlow, numberOfTransferUnits, overallKGa) ==
    IF GtZero(overallKGa) /\ GtZero(numberOfTransferUnits)
    THEN (IF molarGasFlow.quotient.n = 0 THEN molarGasFlow.quotient
          ELSE IF molarGasFlow.quotient.d = 0 THEN molarGasFlow.quotient
          ELSE Sym(Sign(molarGasFlow.quotient.n),
                   [molarGasFlow |-> molarGasFlow,
                    numberOfTransferUnits |-> numberOfTransferUnits,
                    overallKGa |-> overallKGa]))
    ELSE I(0)

\* Lines 91-94; a finite volume over an infinite area is 0.
requiredHeightOf(towerArea, sprayZoneVolume) ==
    IF Gt(towerArea, I(0)) /\ GtZero(sprayZoneVolume)
    THEN (IF IsSym(sprayZoneVolume)
          THEN (IF towerArea.d = 0 THEN I(0)
                ELSE Sym(1, [sprayZoneVolume |-> sprayZoneVolume,
                             towerArea |-> towerArea]))
          ELSE Div(sprayZoneVolume, towerArea))
    ELSE I(0)

\* Line 97: gasVelocity > 0 ? requiredHeight / gasVelocity : 0
gasResidenceTimeOf(gasVelocity, requiredHeight) ==
    IF Gt(gasVelocity, I(0))
    THEN (IF IsSym(requiredHeight)
          THEN (IF gasVelocity.d = 0 THEN I(0)
                ELSE Sym(requiredHeight.sign,
                         [requiredHeight |-> requiredHeight,
                          gasVelocity |-> gasVelocity]))
          ELSE Div(requiredHeight, gasVelocity))
    ELSE I(0)

calculatePerformance(pollutant, gasVelocity, overallKGa, towerArea, operatingGasFlow, operatingTemp) ==
    Only({[outletConcentration |-> outletConcentration,
           numberOfTransferUnits |-> numberOfTransferUnits,
           requiredHeight |-> requiredHeight,
           gasResidenceTime |-> gasResidenceTimeOf(gasVelocity, requiredHeight)] :
              outletConcentration \in {outletConcentrationOf(pollutant)},
              numberOfTransferUnits \in
                  {numberOfTransferUnitsOf(pollutant,
                                           outletConcentrationOf(pollutant))},
              requiredHeight \in
                  {requiredHeightOf(
                       towerArea,
                       sprayZoneVolumeOf(
                           molarGasFlowOf(operatingGasFlow, operatingTemp),
                           numberOfTransferUnitsOf(
                               pollutant, outletConcentrationOf(pollutant)),
                           overallKGa))}})

\* limit && outletConcentration > limit, for limit = euLimits[pollutantType]
ExceedsEuLimit(outletConcentration, pollutantType) ==
    CASE Lookup(pollutantType) = "entry" ->
             Gt(outletConcentration, euLimits(pollutantType))
      [] Lookup(pollutantType) = "inherited" -> FALSE  \* number > function: false
      [] OTHER -> FALSE                                \* undefined is falsy

calculateComplianceStatus(framework, outletConcentration, pressure, pollutantType) ==
    IF framework = "EU"
    THEN [framework |-> framework,
          emissionLimitsMet |-> ~ExceedsEuLimit(outletConcentration, pollutantType),
          pressureVesselCode |->
              IF Gt(pressure, I(50000)) THEN "EU PED (>0.5 bar)"
              ELSE "Atmospheric vessel"]
    ELSE [framework |-> framework,
          emissionLimitsMet |-> TRUE,
          pressureVesselCode |->
              IF Gt(pressure, I(103421)) THEN "ASME BPVC Section VIII"
              ELSE "Atmospheric vessel"]

Threw == [threw |-> TRUE]

\* Lines 77-129: the unit projection and the CalculationResults record.
\* Faulty variant: the outlet concentration is converted with the display
\* units as well.
CombineResults_outletConverted(in, towerSizing, massTransfer, performance, compliance) ==
    [threw |-> FALSE,
     requiredHeight |-> performance.requiredHeight,
     gasResidenceTime |-> performance.gasResidenceTime,
     numberOfTransferUnits |-> performance.numberOfTransferUnits,
     outletConcentration |->
         IF in.settings.unitSystem = "imperial"
         THEN Mul(performance.outletConcentration, Num(107639, 10000))
         ELSE performance.outletConcentration,
     overallKGa |-> massTransfer.overallKGa,
     interfacialArea |-> massTransfer.interfacialArea,
     liquidRate |-> towerSizing.liquidRate,
     towerArea |-> towerSizing.towerArea,
     complianceStatus |-> compliance]

CombineResults(in, towerSizing, massTransfer, performance, compliance) ==
    [threw |-> FALSE,
     requiredHeight |->
         IF in.settings.unitSystem = "imperial" /\ IsSym(performance.requiredHeight)
         THEN Sym(performance.requiredHeight.sign,
                  [m_to_ft |-> performance.requiredHeight])
         ELSE performance.requiredHeight,
     gasResidenceTime |-> performance.gasResidenceTime,
     numberOfTransferUnits |-> performance.numberOfTransferUnits,
     outletConcentration |-> performance.outletConcentration,
     overallKGa |-> massTransfer.overallKGa,
     interfacialArea |-> massTransfer.interfacialArea,
     liquidRate |->
         IF in.settings.unitSystem = "imperial"
         THEN Mul(towerSizing.liquidRate, Num(440287, 100000))
         ELSE towerSizing.liquidRate,
     towerArea |->
         IF in.settings.unitSystem = "imperial"
         THEN Mul(towerSizing.towerArea, Num(107639, 10000))
         ELSE towerSizing.towerArea,
     complianceStatus |-> compliance]

\* Steps 5 and 7 and the result, given steps 1 to 3.
PerformanceAndCompliance(in, gasProps, towerSizing, massTransfer) ==
    Only({CombineResults(in, towerSizing, massTransfer, performance,
                         calculateComplianceStatus(
                             in.settings.regulatoryFramework,
                             performance.outletConcentration,
                             gasProps.operatingPressure,
                             in.pollutant.type)) :
              performance \in {calculatePerformance(in.pollutant,
                                                    in.tower.gasVelocity,
                                                    massTransfer.overallKGa,
                                                    towerSizing.towerArea,
                                                    gasProps.operatingGasFlow,
                                                    gasProps.operatingTemp)}})

\* Step 3 and what follows, given steps 1 and 2.
MassTransferOnwards(in, gasProps, towerSizing) ==
    Only({PerformanceAndCompliance(in, gasProps, towerSizing, massTransfer) :
              massTransfer \in {calculateMassTransfer(in.pollutant, in.tower,
                                                      gasProps,
                                                      in.tower.gasVelocity,
                                                      towerSizing.liquidFlux)}})

\* Step 2 and what follows, given step 1.
TowerSizingOnwards(in, gasProps) ==
    Only({MassTransferOnwards(in, gasProps, towerSizing) :
              towerSizing \in {calculateTowerSizing(gasProps.operatingGasFlow,
                                                    in.tower.gasVelocity,
                                                    in.tower.lgRatio)}})

\* The Orchestrator: Threw when a stage throws (only step 3 can), else the
\* CalculationResults.
calculateSprayTower(in) ==
    IF MassTransferThrows(in.pollutant) THEN Threw
    ELSE Only({TowerSizingOnwards(in, gasProps) :
                   gasProps \in {calculateGasProperties(in.gasStream)}})

(***************************************************************************)
(* optimizeForCompliance                                                   *)
(***************************************************************************)
LogLine(kind, i) == [kind |-> kind, iteration |-> i]

\* Faulty variant: the loop condition written with <.
LoopGuard_strict(i, max) == i < max

\* Faulty variant: the loop condition lets one more pass through.
LoopGuard_onePastEnd(i, max) == i <= max + 1

\* for (...; iterations <= maxIterations; ...)
LoopGuard(i, max) == i <= max

\* Faulty variant: the early return taken on the negated flag.
InitiallyCompliant_negated(r) == ~r.complianceStatus.emissionLimitsMet

\* Line 29: if (results.complianceStatus.emissionLimitsMet)
InitiallyCompliant(r) == r.complianceStatus.emissionLimitsMet

\* Faulty variant: the loop never leaves on compliance.
ComplianceAchieved_never(r) == FALSE

\* Line 101: if (results.complianceStatus.emissionLimitsMet)
ComplianceAchieved(r) == r.complianceStatus.emissionLimitsMet

\* Faulty variant: the first strategy given the first 10% of the budget.
InPhase1_tenth(i, max) == Le(I(i), Mul(I(max), Num(1, 10)))

\* iterations <= maxIterations * 0.4
InPhase1(i, max) == Le(I(i), Mul(I(max), Num(4, 10)))

\* Faulty variant: the second strategy tested with the first one's threshold.
InPhase2_asPhase1(i, max) == Le(I(i), Mul(I(max), Num(4, 10)))

\* iterations <= maxIterations * 0.7
InPhase2(i, max) == Le(I(i), Mul(I(max), Num(7, 10)))

lgIncreaseFactor(i) == Add(I(1), Mul(I(i), Num(1, 10)))

velocityFactor(i, max) ==
    Max(Num(1, 2),
        Sub(I(1), Mul(Sub(I(i), Mul(I(max), Num(4, 10))), Num(5, 100))))

\* Faulty variant: the droplet size grows with the iteration.
dropletFactor_growing(i, max) ==
    Add(I(1), Mul(Sub(I(i), Mul(I(max), Num(7, 10))), Num(1, 10)))

dropletFactor(i, max) ==
    Max(Num(1, 2),
        Sub(I(1), Mul(Sub(I(i), Mul(I(max), Num(7, 10))), Num(1, 10))))

\* Faulty variant: each strategy starts from the original input, so what an
\* earlier strategy has set is lost.
Mutated_fromOriginal(cur, orig, i, max, reqEff) ==
    IF InPhase1(i, max)
    THEN [orig EXCEPT !.tower.lgRatio = Mul(orig.tower.lgRatio, lgIncreaseFactor(i)),
                      !.pollutant.targetEfficiency = reqEff]
    ELSE IF InPhase2(i, max)
    THEN [orig EXCEPT !.tower.gasVelocity =
                          Mul(orig.tower.gasVelocity, velocityFactor(i, max))]
    ELSE [orig EXCEPT !.tower.dropletSize =
                          Mul(orig.tower.dropletSize, dropletFactor(i, max))]

\* The parameter set of loop iteration i: the three strategies, each a copy
\* of currentInput with the fields of its phase rewritten from the original.
Mutated(cur, orig, i, max, reqEff) ==
    IF InPhase1(i, max)
    THEN [cur EXCEPT !.tower.lgRatio = Mul(orig.tower.lgRatio, lgIncreaseFactor(i)),
                     !.pollutant.targetEfficiency = reqEff]
    ELSE IF InPhase2(i, max)
    THEN [cur EXCEPT !.tower.gasVelocity =
                         Mul(orig.tower.gasVelocity, velocityFactor(i, max))]
    ELSE [cur EXCEPT !.tower.dropletSize =
                         Mul(orig.tower.dropletSize, dropletFactor(i, max))]

\* Faulty variant: the strategy lines do not carry their iteration.
MutationLine_unnumbered(i, max) ==
    IF InPhase1(i, max) THEN LogLine("Increasing L/G ratio", 0)
    ELSE IF InPhase2(i, max) THEN LogLine("Adjusting gas velocity", 0)
    ELSE LogLine("Reducing droplet size", 0)

\* the strategy's log line of iteration i
MutationLine(i, max) ==
    IF InPhase1(i, max) THEN LogLine("Increasing L/G ratio", i)
    ELSE IF InPhase2(i, max) THEN LogLine("Adjusting gas velocity", i)
    ELSE LogLine("Reducing droplet size", i)

\* Faulty variant: the rewritten fields are assigned in place; currentInput is
\* a shallow copy, so its tower and pollutant are the caller's objects.
CallerInputAfter_inPlace(callerInput, cur) ==
    [callerInput EXCEPT !.tower = cur.tower, !.pollutant = cur.pollutant]

\* Lines 55-65, 72-78, 85-91: currentInput = { ...currentInput, tower: {
\* ...currentInput.tower, ... } } builds new objects for everything it
\* rewrites; the objects the caller holds are not written.
CallerInputAfter(callerInput, cur) == callerInput

\* Faulty variant: a tie replaces the best result (<= for <).
IsNewBest_onTies(best, r) ==
    best = Null \/ Le(r.outletConcentration, best.outletConcentration)

\* !bestResults || results.outletConcentration < bestResults.outletConcentration
IsNewBest(best, r) ==
    best = Null \/ Lt(r.outletConcentration, best.outletConcentration)

\* iterations > 5 && results.outletConcentration > targetOutletConcentration * 2
IsDiverging(i, r, target) ==
    i > 5 /\ Gt(r.outletConcentration, Mul(target, I(2)))

\* Faulty variant: the best result is used without the null checks.
UseBest_unchecked(conv, bestR, bestI) == ~conv

\* if (!convergenceReached && bestResults && bestInput)
UseBest(conv, bestR, bestI) == ~conv /\ bestR # Null /\ bestI # Null

\* Faulty variant: every return reports convergence.
Return_alwaysConverged(outcome, conv, bestR, bestI, res, cur, its, lg) ==
    /\ pc' = outcome
    /\ results' = res
    /\ currentInput' = cur
    /\ log' = lg
    /\ bestResults' = bestR
    /\ bestInput' = bestI
    /\ convergenceReached' = TRUE
    /\ iterations' = its
    /\ returned' = [results |-> res,
                    optimizedInput |-> cur,
                    iterations |-> its,
                    convergenceReached |-> TRUE,
                    optimizationLog |-> lg]

\* Line 130-136: the return.
Return(outcome, conv, bestR, bestI, res, cur, its, lg) ==
    /\ pc' = outcome
    /\ results' = res
    /\ currentInput' = cur
    /\ log' = lg
    /\ bestResults' = bestR
    /\ bestInput' = bestI
    /\ convergenceReached' = conv
    /\ iterations' = its
    /\ returned' = [results |-> res,
                    optimizedInput |-> cur,
                    iterations |-> its,
                    convergenceReached |-> conv,
                    optimizationLog |-> lg]

\* Faulty variant: the best results are returned with the last parameter set.
Finish_mixedPair(outcome, conv, bestR, bestI, res, cur, its, lg) ==
    IF UseBest(conv, bestR, bestI)
    THEN Return(outcome, conv, bestR, bestI, bestR, cur, its,
                lg \o <<LogLine("Could not achieve full compliance", its),
                        LogLine("Using best result", its)>>)
    ELSE Return(outcome, conv, bestR, bestI, res, cur, its, lg)

\* Lines 122-136: the code after the loop, up to the return.
Finish(outcome, conv, bestR, bestI, res, cur, its, lg) ==
    IF UseBest(conv, bestR, bestI)
    THEN Return(outcome, conv, bestR, bestI, bestR, bestI, its,
                lg \o <<LogLine("Could not achieve full compliance", its),
                        LogLine("Using best result", its)>>)
    ELSE Return(outcome, conv, bestR, bestI, res, cur, its, lg)

\* Lines 14-48: the declarations' values are Init; the first evaluation, the
\* early return, and the limit, target and required efficiency.
Start ==
    /\ pc = "Initial"
    /\ evaluations' = Append(evaluations,
                             [iteration |-> 0, input |-> currentInput,
                              results |-> calculateSprayTower(currentInput)])
    /\ \E r \in {evaluations'[Len(evaluations')].results} :
       \E lg \in {log \o <<LogLine("Starting compliance optimization", 0),
                           LogLine("Target pollutant", 0)>>} :
           IF r.threw
           THEN /\ pc' = "Threw"
                /\ log' = lg
                /\ UNCHANGED <<currentInput, results, bestResults, bestInput,
                               iterations, convergenceReached, emissionLimits,
                               targetOutletConcentration, requiredEfficiency,
                               returned>>
           ELSE IF InitiallyCompliant(r)
           THEN /\ pc' = "Compliant"
                /\ results' = r
                /\ log' = lg \o <<LogLine("Initial calculation", 0),
                                  LogLine("Initial design already meets", 0)>>
                /\ returned' = [results |-> r,
                                optimizedInput |-> currentInput,
                                iterations |-> 0,
                                convergenceReached |-> TRUE,
                                optimizationLog |-> log']
                /\ UNCHANGED <<currentInput, bestResults, bestInput, iterations,
                               convergenceReached, emissionLimits,
                               targetOutletConcentration, requiredEfficiency>>
           ELSE /\ pc' = "Evaluating"
                /\ results' = r
                /\ emissionLimits' =
                       getEmissionLimits(input.settings.regulatoryFramework,
                                         input.pollutant.type)
                /\ targetOutletConcentration' = Mul(emissionLimits', Num(9, 10))
                /\ requiredEfficiency' =
                       Sub(I(1), Div(targetOutletConcentration',
                                     input.pollutant.inletConcentration))
                /\ log' = lg \o <<LogLine("Initial calculation", 0),
                                  LogLine("Regulatory limit", 0),
                                  LogLine("Required efficiency", 0)>>
                /\ iterations' = 1
                /\ UNCHANGED <<currentInput, bestResults, bestInput,
                               convergenceReached, returned>>
    /\ UNCHANGED <<input, inputAtCall, calls, maxIterations, aiResponse,
                   aiAnalysis>>
    /\ UNCHANGED componentVars

\* Lines 51-120: one pass of the loop body, and, when it breaks, the code
\* after the loop.
Iterate ==
    /\ pc = "Evaluating"
    /\ LoopGuard(iterations, maxIterations)
    /\ \E cur \in {Mutated(currentInput, input, iterations, maxIterations,
                           requiredEfficiency)} :
       \E r \in {calculateSprayTower(cur)} :
       \E lg \in {log \o <<MutationLine(iterations, maxIterations),
                           LogLine("Result", iterations)>>} :
           /\ evaluations' = Append(evaluations,
                                    [iteration |-> iterations, input |-> cur,
                                     results |-> r])
           /\ IF r.threw
              THEN /\ pc' = "Threw"
                   /\ currentInput' = cur
                   /\ log' = lg
                   /\ UNCHANGED <<results, bestResults, bestInput, iterations,
                                  convergenceReached, returned>>
              ELSE IF ComplianceAchieved(r)
              THEN Finish("Compliant", TRUE, r, cur, r, cur, iterations,
                          Append(lg, LogLine("Compliance achieved", iterations)))
              ELSE \E newBest \in {IsNewBest(bestResults, r)} :
                   \E bestR \in {IF newBest THEN r ELSE bestResults} :
                   \E bestI \in {IF newBest THEN cur ELSE bestInput} :
                       IF IsDiverging(iterations, r, targetOutletConcentration)
                       THEN Finish("Diverging", convergenceReached, bestR, bestI,
                                   r, cur, iterations,
                                   Append(lg, LogLine("Optimization diverging",
                                                      iterations)))
                       ELSE /\ pc' = "Evaluating"
                            /\ currentInput' = cur
                            /\ results' = r
                            /\ bestResults' = bestR
                            /\ bestInput' = bestI
                            /\ log' = lg
                            /\ iterations' = iterations + 1
                            /\ UNCHANGED <<convergenceReached, returned>>
           /\ input' = CallerInputAfter(input, cur)
    /\ UNCHANGED <<inputAtCall, calls, maxIterations, emissionLimits,
                   targetOutletConcentration, requiredEfficiency, aiResponse,
                   aiAnalysis>>
    /\ UNCHANGED componentVars

\* The loop condition fails: the code after the loop.
Exhaust ==
    /\ pc = "Evaluating"
    /\ ~LoopGuard(iterations, maxIterations)
    /\ Finish("ExhaustedIterations", convergenceReached, bestResults, bestInput,
              results, currentInput, iterations, log)
    /\ UNCHANGED <<input, inputAtCall, calls, maxIterations, emissionLimits,
                   targetOutletConcentration, requiredEfficiency, evaluations,
                   aiResponse, aiAnalysis>>
    /\ UNCHANGED componentVars

(***************************************************************************)
(* The calls enumerated.                                                   *)
(***************************************************************************)
PollutantTypes == {"SO2", "HCl", "XYZ", "constructor"}

GasVelocities == {I(0), I(3)}

KgaOverrides == {Undefined, I(0), Num(1, 2)}

InletConcentrations == {I(1500), I(2000)}

TargetEfficiencies == {I(0), Num(1, 2), Num(9, 10), I(1)}

Inputs ==
    {[gasStream |-> [gasFlowRate |-> I(7200), temperature |-> I(0),
                     pressure |-> Num(101325, 1000)],
      pollutant |-> [type |-> t, inletConcentration |-> c, targetEfficiency |-> e],
      tower |-> [lgRatio |-> Num(15, 1000), gasVelocity |-> v,
                 dropletSize |-> Num(8, 10), kgaOverride |-> k],
      settings |-> [unitSystem |-> u, regulatoryFramework |-> f]] :
        t \in PollutantTypes, c \in InletConcentrations, e \in TargetEfficiencies,
        v \in GasVelocities, k \in KgaOverrides,
        u \in {"metric", "imperial"}, f \in {"EU", "US"}}

Init ==
    /\ input \in Inputs
    /\ inputAtCall = input
    /\ calls = <<>>
    /\ maxIterations \in 0..MaxIterationsBound
    /\ pc = "Initial"
    /\ currentInput = input
    /\ results = Null
    /\ bestResults = Null
    /\ bestInput = Null
    /\ iterations = 0
    /\ convergenceReached = FALSE
    /\ log = <<>>
    /\ emissionLimits = Null
    /\ targetOutletConcentration = Null
    /\ requiredEfficiency = Null
    /\ returned = Null
    /\ evaluations = <<>>
    /\ aiResponse = <<>>
    /\ aiAnalysis = <<>>
    /\ ComponentsIdle

Next == Start \/ Iterate \/ Exhaust

Spec == Init /\ [][Next]_vars

\* The call runs to its end: a step that can be taken is eventually taken.
FairSpec == Spec /\ WF_vars(Next)

(***************************************************************************)
(* Calls one after another: the caller calls optimizeForCompliance again   *)
(* when a call has ended, with the same or with another input and budget.  *)
(***************************************************************************)
CallInputs ==
    {in \in Inputs :
        /\ in.pollutant.type \in {"SO2", "XYZ"}
        /\ in.pollutant.inletConcentration = I(1500)
        /\ in.pollutant.targetEfficiency \in {Num(1, 2), Num(9, 10)}
        /\ in.tower.gasVelocity = I(3)
        /\ in.tower.kgaOverride = Undefined
        /\ in.settings.unitSystem = "metric"
        /\ in.settings.regulatoryFramework = "EU"}

CallBudgets == {0, 2, 3}

\* Faulty variant: one log array shared by all calls.
FreshLog_shared(previous) == previous

\* Line 14: const log: string[] = [] is a new array in every call.
FreshLog(previous) == <<>>

\* The call that has ended, as the caller saw it.
EndedCall ==
    [input |-> inputAtCall, maxIterations |-> maxIterations, outcome |-> pc,
     returned |-> returned, evaluations |-> evaluations]

\* Lines 13-19 of a further call: the parameters and the declarations.
CallAgain ==
    /\ pc \in {"Compliant", "Diverging", "ExhaustedIterations", "Threw"}
    /\ Len(calls) < MaxCalls - 1
    /\ calls' = Append(calls, EndedCall)
    /\ input' \in CallInputs
    /\ maxIterations' \in CallBudgets
    /\ inputAtCall' = input'
    /\ pc' = "Initial"
    /\ log' = FreshLog(log)
    /\ currentInput' = input'
    /\ results' = Null
    /\ bestResults' = Null
    /\ bestInput' = Null
    /\ iterations' = 0
    /\ convergenceReached' = FALSE
    /\ emissionLimits' = Null
    /\ targetOutletConcentration' = Null
    /\ requiredEfficiency' = Null
    /\ returned' = Null
    /\ evaluations' = <<>>
    /\ UNCHANGED <<aiResponse, aiAnalysis>>
    /\ UNCHANGED componentVars

InitCalls == Init /\ input \in CallInputs /\ maxIterations \in CallBudgets

NextCalls == Start \/ Iterate \/ Exhaust \/ CallAgain

CallsSpec == InitCalls /\ [][NextCalls]_vars

\* settings.unitSystem is 'metric' | 'imperial'.
OtherUnitSystem(unitSystem) ==
    IF unitSystem = "metric" THEN "imperial" ELSE "metric"

\* The caller makes the call a second time with the same input and the same
\* maxIterations, the unit system switched.
CallWithOtherUnits ==
    /\ pc \in {"Compliant", "Diverging", "ExhaustedIterations", "Threw"}
    /\ calls = <<>>
    /\ calls' = <<EndedCall>>
    /\ input' = [inputAtCall EXCEPT !.settings.unitSystem =
                                        OtherUnitSystem(inputAtCall.settings.unitSystem)]
    /\ inputAtCall' = input'
    /\ pc' = "Initial"
    /\ log' = FreshLog(log)
    /\ currentInput' = input'
    /\ results' = Null
    /\ bestResults' = Null
    /\ bestInput' = Null
    /\ iterations' = 0
    /\ convergenceReached' = FALSE
    /\ emissionLimits' = Null
    /\ targetOutletConcentration' = Null
    /\ requiredEfficiency' = Null
    /\ returned' = Null
    /\ evaluations' = <<>>
    /\ UNCHANGED <<maxIterations, aiResponse, aiAnalysis>>
    /\ UNCHANGED componentVars

NextUnits == Start \/ Iterate \/ Exhaust \/ CallWithOtherUnits

UnitsSpec == Init /\ [][NextUnits]_vars

(***************************************************************************)
(* The AI export: the answer of the model for a report section is passed   *)
(* through sanitizeAIResponse and stored in the report.  A response is a   *)
(* sequence of characters, one of each class the calculation pattern       *)
(* /\b\d+\.?\d*\s*[\+\-\*\/]\s*\d+\.?\d*\b/ tells apart.                    *)
(***************************************************************************)
Chars == {"7", "+", " ", "a"}

Digits == {"7"}

Operators == {"+"}

Spaces == {" "}

\* \w: letters, digits and the underscore
WordChars == {"7", "a"}

Responses == UNION {[1..n -> Chars] : n \in 0..MaxResponseLen}

\* String.prototype.trim
RECURSIVE trim(_)
trim(str) ==
    IF str = <<>> THEN str
    ELSE IF Head(str) \in Spaces THEN trim(Tail(str))
    ELSE IF str[Len(str)] \in Spaces THEN trim(SubSeq(str, 1, Len(str) - 1))
    ELSE str

\* Line 198: return response; the replacement of the calculation pattern
\* (lines 199-209) is commented out.
sanitizeAIResponse(response) == response

\* route.ts lines 160-165: if (content) aiAnalysis[section] =
\* sanitizeAIResponse(content.trim())
PlaceInReport ==
    /\ aiAnalysis = <<>>
    /\ aiResponse # <<>>
    /\ aiAnalysis' = <<sanitizeAIResponse(trim(aiResponse))>>
    /\ UNCHANGED <<input, inputAtCall, calls, maxIterations, pc, currentInput,
                   results, bestResults, bestInput, iterations,
                   convergenceReached, log, emissionLimits,
                   targetOutletConcentration, requiredEfficiency, returned,
                   evaluations, aiResponse>>
    /\ UNCHANGED componentVars

\* The calculator is not running while a report is exported.
InitReport ==
    /\ aiResponse \in Responses
    /\ aiAnalysis = <<>>
    /\ ComponentsIdle
    /\ input = Null
    /\ inputAtCall = Null
    /\ calls = <<>>
    /\ maxIterations = 0
    /\ pc = "NotCalled"
    /\ currentInput = Null
    /\ results = Null
    /\ bestResults = Null
    /\ bestInput = Null
    /\ iterations = 0
    /\ convergenceReached = FALSE
    /\ log = <<>>
    /\ emissionLimits = Null
    /\ targetOutletConcentration = Null
    /\ requiredEfficiency = Null
    /\ returned = Null
    /\ evaluations = <<>>

ReportSpec == InitReport /\ [][PlaceInReport]_vars

\* No call of the optimizer is under way and no report is being exported.
OptimizerNotCalled ==
    /\ input = Null
    /\ inputAtCall = Null
    /\ calls = <<>>
    /\ maxIterations = 0
    /\ pc = "NotCalled"
    /\ currentInput = Null
    /\ results = Null
    /\ bestResults = Null
    /\ bestInput = Null
    /\ iterations = 0
    /\ convergenceReached = FALSE
    /\ log = <<>>
    /\ emissionLimits = Null
    /\ targetOutletConcentration = Null
    /\ requiredEfficiency = Null
    /\ returned = Null
    /\ evaluations = <<>>
    /\ aiResponse = <<>>
    /\ aiAnalysis = <<>>

(***************************************************************************)
(* calculateDropletPhysics.  One pass of the loop computes the next        *)
(* estimate of the terminal velocity from the current one with a square    *)
(* root and a power (lines 163-178), a map fixed by dropletSize,           *)
(* gasDensity, gasViscosity and liquidDensity.  The model takes that map   *)
(* as given: any map on a few velocities, among them two that differ by    *)
(* less than 0.001 and NaN (the square root of a negative number, when the *)
(* liquid is lighter than the gas), which every later estimate keeps.      *)
(***************************************************************************)
Velocities == {I(1), I(2), Num(20005, 10000), NaN}

EstimateMaps == {f \in [Velocities -> Velocities] : f[NaN] = NaN}

\* for (let i = 0; i < 10; i++)
DropletLoopLimit == 10

\* Math.abs(newVelocity - terminalVelocity) < 0.001
Converged(newVelocity, terminalVelocity) ==
    \E diff \in {Sub(newVelocity, terminalVelocity)} :
        /\ ~IsNaN(diff)
        /\ Lt(IF diff.n < 0 THEN Neg(diff) ELSE diff, Num(1, 1000))

\* Lines 187-201: the relative velocity, the contact time and the return.
DropletReturn(terminalVelocity, passes, estimates) ==
    \E relativeVelocity \in {Max(I(0), Sub(terminalVelocity, droplet.gasVelocity))} :
        droplet' = [droplet EXCEPT
                       !.pc = "Returned",
                       !.terminalVelocity = terminalVelocity,
                       !.passes = passes,
                       !.estimates = estimates,
                       !.relativeVelocity = relativeVelocity,
                       !.contactTime =
                           IF Gt(relativeVelocity, I(0))
                           THEN Div(droplet.sprayHeight, relativeVelocity)
                           ELSE I(0)]

\* Lines 162-185: one pass of the loop; on the break, the code after it.
DropletIterate ==
    /\ droplet.pc = "Loop"
    /\ droplet.i < DropletLoopLimit
    /\ \E newVelocity \in {droplet.estimate[droplet.terminalVelocity]} :
           IF Converged(newVelocity, droplet.terminalVelocity)
           THEN DropletReturn(newVelocity, droplet.passes + 1,
                              Append(droplet.estimates, newVelocity))
           ELSE droplet' = [droplet EXCEPT
                               !.terminalVelocity = newVelocity,
                               !.i = droplet.i + 1,
                               !.passes = droplet.passes + 1,
                               !.estimates = Append(droplet.estimates, newVelocity)]
    /\ UNCHANGED <<optimizerVars, wrapper, calculator, session>>

\* The loop condition fails: the code after the loop.
DropletLoopEnd ==
    /\ droplet.pc = "Loop"
    /\ ~(droplet.i < DropletLoopLimit)
    /\ DropletReturn(droplet.terminalVelocity, droplet.passes, droplet.estimates)
    /\ UNCHANGED <<optimizerVars, wrapper, calculator, session>>

\* Lines 157-160: let terminalVelocity = 1.0, with the 5 m spray height the
\* orchestrator passes.
InitDroplet ==
    /\ OptimizerNotCalled
    /\ WrapperIdle /\ CalculatorIdle /\ SessionIdle
    /\ \E f \in EstimateMaps : \E v \in GasVelocities :
           droplet = [pc |-> "Loop", estimate |-> f, gasVelocity |-> v,
                      sprayHeight |-> I(5), terminalVelocity |-> I(1),
                      i |-> 0, passes |-> 0, estimates |-> <<I(1)>>,
                      relativeVelocity |-> Null, contactTime |-> Null]

NextDroplet == DropletIterate \/ DropletLoopEnd

DropletSpec == InitDroplet /\ [][NextDroplet]_vars

(***************************************************************************)
(* calculateSprayTowerWithCompliance                                       *)
(***************************************************************************)
\* compliance-optimizer.ts line 13: maxIterations: number = 20
DefaultMaxIterations == 20

\* Faulty variant: every input is sent to the optimizer.
shouldOptimizeForCompliance_always(r) == TRUE

\* compliance-optimizer.ts lines 160-164, given the preliminary results.
shouldOptimizeForCompliance(r) == ~r.complianceStatus.emissionLimitsMet

\* calculator.ts lines 146-164: the check, and either the return of the
\* standard calculation or the call of optimizeForCompliance(input).
WithComplianceCheck ==
    /\ wrapper.pc = "Called"
    /\ \E r \in {calculateSprayTower(wrapper.input)} :
           IF r.threw
           THEN /\ wrapper' = [wrapper EXCEPT !.pc = "Threw"]
                /\ UNCHANGED optimizerVars
           ELSE IF ~shouldOptimizeForCompliance(r)
           THEN /\ wrapper' =
                       [wrapper EXCEPT
                            !.pc = "Returned",
                            !.enhanced =
                                [results |-> calculateSprayTower(wrapper.input),
                                 optimizationInfo |->
                                     [wasOptimized |-> FALSE,
                                      iterations |-> 0,
                                      convergenceReached |-> TRUE,
                                      originalInput |-> wrapper.input,
                                      optimizedInput |-> wrapper.input]]]
                /\ UNCHANGED optimizerVars
           ELSE /\ wrapper' = [wrapper EXCEPT !.pc = "Optimizing"]
                /\ input' = wrapper.input
                /\ inputAtCall' = wrapper.input
                /\ maxIterations' = DefaultMaxIterations
                /\ pc' = "Initial"
                /\ currentInput' = wrapper.input
                /\ UNCHANGED <<calls, results, bestResults, bestInput,
                               iterations, convergenceReached, log,
                               emissionLimits, targetOutletConcentration,
                               requiredEfficiency, returned, evaluations,
                               aiResponse, aiAnalysis>>
    /\ UNCHANGED <<droplet, calculator, session>>

\* calculator.ts lines 164-177: the optimizer has returned (or thrown).
WithComplianceReturn ==
    /\ wrapper.pc = "Optimizing"
    /\ pc \in {"Compliant", "Diverging", "ExhaustedIterations", "Threw"}
    /\ IF pc = "Threw"
       THEN wrapper' = [wrapper EXCEPT !.pc = "Threw"]
       ELSE wrapper' =
                [wrapper EXCEPT
                     !.pc = "Returned",
                     !.enhanced =
                         [results |-> returned.results,
                          optimizationInfo |->
                              [wasOptimized |-> TRUE,
                               iterations |-> returned.iterations,
                               convergenceReached |-> returned.convergenceReached,
                               originalInput |-> wrapper.input,
                               optimizedInput |-> returned.optimizedInput]]]
    /\ UNCHANGED <<optimizerVars, droplet, calculator, session>>

InitWrapper ==
    /\ OptimizerNotCalled
    /\ DropletIdle /\ CalculatorIdle /\ SessionIdle
    /\ \E in \in Inputs :
           wrapper = [pc |-> "Called", input |-> in, enhanced |-> Null]

\* With the default budget the loop is left by its break (line 101) in its
\* first pass, so the code after an exhausted loop is not among the steps.
NextWrapper == WithComplianceCheck \/ Start \/ Iterate \/ WithComplianceReturn

WrapperSpec == InitWrapper /\ [][NextWrapper]_vars

(***************************************************************************)
(* SprayTowerCalculator: the debounced recalculation                       *)
(***************************************************************************)
\* The number of timers the component sets while it is observed.
MaxTimers == 3

\* One entry of the list validateInput returns.
ValidationError(field, type) == <<[field |-> field, type |-> type]>>

\* A check "v <= 0 is an error, else v outside [min, max] is a warning".
PositiveInRange(field, v, min, max) ==
    IF Le(v, I(0)) THEN ValidationError(field, "error")
    ELSE IF Lt(v, min) \/ Gt(v, max) THEN ValidationError(field, "warning")
    ELSE <<>>

\* validateInput, in the order of its checks.  liquidDensity, liquidViscosity
\* and nozzlePressure, which the calculation modelled here does not read,
\* are positive in every input considered.
validateInput(in) ==
    PositiveInRange("gasFlowRate", in.gasStream.gasFlowRate, I(100), I(1000000))
    \o (IF Lt(in.gasStream.temperature, I(0)) \/ Gt(in.gasStream.temperature, I(200))
        THEN ValidationError("temperature", "warning") ELSE <<>>)
    \o PositiveInRange("pressure", in.gasStream.pressure, I(50), I(500))
    \o (IF Lookup(in.pollutant.type) = "undefined"
        THEN ValidationError("pollutantType", "error") ELSE <<>>)
    \o (IF Le(in.pollutant.inletConcentration, I(0))
        THEN ValidationError("inletConcentration", "error") ELSE <<>>)
    \o (IF Lt(in.pollutant.targetEfficiency, Num(1, 10))
           \/ Gt(in.pollutant.targetEfficiency, Num(99, 100))
        THEN ValidationError("targetEfficiency", "error") ELSE <<>>)
    \o PositiveInRange("lgRatio", in.tower.lgRatio, Num(1, 1000), Num(1, 10))
    \o PositiveInRange("gasVelocity", in.tower.gasVelocity, I(1), I(10))
    \o (IF Gt(in.tower.gasVelocity, Num(23, 10))
        THEN ValidationError("gasVelocity", "warning") ELSE <<>>)
    \o PositiveInRange("dropletSize", in.tower.dropletSize, Num(1, 10), I(5))

\* errors.some(error => error.type === 'error')
hasErrors(errors) == \E i \in 1..Len(errors) : errors[i].type = "error"

\* Faulty variant: the effect returns no cleanup.
Cleanup_missing(timers) == timers

\* return () => clearTimeout(timeoutId): the timer of the effect that is
\* cleaned up, the last one set, is cleared; clearing a timer that has fired
\* does nothing.
Cleanup(timers) ==
    IF timers[Len(timers)].status = "pending"
    THEN [timers EXCEPT ![Len(timers)].status = "cancelled"]
    ELSE timers

\* setTimeout(() => {...}, 500) in a render whose input is in: the callback
\* closes over that input.
SetTimer(timers, in) == Append(timers, [input |-> in, status |-> "pending"])

\* The inputs the form is given.
CalculatorInputs ==
    {in \in Inputs :
        /\ in.pollutant.type \in {"SO2", "XYZ"}
        /\ in.pollutant.inletConcentration = I(1500)
        /\ in.pollutant.targetEfficiency = Num(9, 10)
        /\ in.tower.kgaOverride = Undefined
        /\ in.settings.regulatoryFramework = "EU"}

Sections == {"gasStream", "pollutant", "tower", "settings"}

\* updateGasStream, updatePollutant, updateTower, updateSettings: one section
\* of input is replaced, the component renders again, and as input has
\* changed the effect's cleanup runs and the effect runs again.
SetInput ==
    /\ calculator.pc = "Mounted"
    /\ Len(calculator.timers) < MaxTimers
    /\ \E section \in Sections : \E new \in CalculatorInputs :
       \E in \in {[calculator.input EXCEPT ![section] = new[section]]} :
           calculator' =
               [calculator EXCEPT
                    !.input = in,
                    !.timers = SetTimer(Cleanup(calculator.timers), in)]
    /\ UNCHANGED <<optimizerVars, droplet, wrapper, session>>

\* The callback of a pending timer runs: lines 586-605, with the input of
\* the render that set the timer.
TimerFires ==
    /\ calculator.pc = "Mounted"
    /\ \E i \in 1..Len(calculator.timers) :
           /\ calculator.timers[i].status = "pending"
           /\ \E in \in {calculator.timers[i].input} :
              \E validationErrors \in {validateInput(in)} :
              \E calculatedResults \in {IF hasErrors(validationErrors)
                                         THEN Null
                                         ELSE calculateSprayTower(in)} :
                  calculator' =
                      [calculator EXCEPT
                           !.timers[i].status = "fired",
                           !.errors = validationErrors,
                           !.results =
                               IF hasErrors(validationErrors) THEN Null
                               ELSE IF calculatedResults.threw THEN Null
                               ELSE calculatedResults,
                           !.storedBy = i]
    /\ UNCHANGED <<optimizerVars, droplet, wrapper, session>>

\* The component is unmounted: the cleanup of the last effect runs.
Unmount ==
    /\ calculator.pc = "Mounted"
    /\ calculator' = [calculator EXCEPT !.pc = "Unmounted",
                                        !.timers = Cleanup(calculator.timers)]
    /\ UNCHANGED <<optimizerVars, droplet, wrapper, session>>

\* After the first render and its effect: results null, no errors, the
\* first timer set.  storedBy is history: the timer whose callback wrote
\* results and errors last (0: none yet).
InitCalculator ==
    /\ OptimizerNotCalled
    /\ DropletIdle /\ WrapperIdle /\ SessionIdle
    /\ \E in \in CalculatorInputs :
           calculator = [pc |-> "Mounted", input |-> in, results |-> Null,
                         errors |-> <<>>, timers |-> SetTimer(<<>>, in),
                         storedBy |-> 0]

NextCalculator == SetInput \/ TimerFires \/ Unmount

CalculatorSpec == InitCalculator /\ [][NextCalculator]_vars

(***************************************************************************)
(* The session gate: middleware and the auth route                         *)
(***************************************************************************)
\* The number of requests of one browser that are observed.
MaxRequests == 3

\* Paths are sequences of characters.
RootPath == <<"/">>

LoginPath == <<"/", "l", "o", "g", "i", "n">>

ApiPrefix == <<"/", "a", "p", "i", "/">>

NextPrefix == <<"/", "_", "n", "e", "x", "t", "/">>

\* /, /login, /login/, /app, /api, /api/a, /_next/s, /a.b
Paths ==
    {RootPath, LoginPath, LoginPath \o <<"/">>, <<"/", "a", "p", "p">>,
     <<"/", "a", "p", "i">>, ApiPrefix \o <<"a">>, NextPrefix \o <<"s">>,
     <<"/", "a", ".", "b">>}

\* pathname.startsWith(prefix)
startsWith(path, prefix) ==
    Len(path) >= Len(prefix) /\ SubSeq(path, 1, Len(prefix)) = prefix

\* pathname.includes(ch)
includes(path, ch) == \E i \in 1..Len(path) : path[i] = ch

\* An optional string is <<>> (undefined) or <<s>>.
\* The app-authenticated cookie a request may carry.
CookieValues == {<<>>, <<"true">>, <<"false">>}

\* process.env.APP_PASSWORD
AppPasswords == {<<>>, <<"">>, <<"secret">>}

\* The body of a login POST: not JSON, or JSON with or without a password.
Bodies ==
    {[json |-> FALSE, password |-> <<>>]}
        \cup {[json |-> TRUE, password |-> p] :
                  p \in {<<>>, <<"">>, <<"secret">>, <<"wrong">>}}

\* !s for an optional string: undefined and '' are falsy.
Falsy(s) == s = <<>> \/ s = <<"">>

PassThrough == [kind |-> "next"]

Redirect(path) == [kind |-> "redirect", location |-> path]

\* Faulty variant: any app-authenticated cookie authenticates.
middleware_anyCookie(path, cookie) ==
    IF \/ startsWith(path, ApiPrefix)
       \/ startsWith(path, NextPrefix)
       \/ includes(path, ".")
    THEN PassThrough
    ELSE IF path = LoginPath
    THEN IF cookie # <<>> THEN Redirect(RootPath) ELSE PassThrough
    ELSE IF cookie = <<>> THEN Redirect(LoginPath)
    ELSE PassThrough

\* middleware(request), for the request's path and its app-authenticated
\* cookie.
middleware(path, cookie) ==
    IF \/ startsWith(path, ApiPrefix)
       \/ startsWith(path, NextPrefix)
       \/ includes(path, ".")
    THEN PassThrough
    ELSE IF path = LoginPath
    THEN IF cookie = <<"true">> THEN Redirect(RootPath) ELSE PassThrough
    ELSE IF ~(cookie = <<"true">>) THEN Redirect(LoginPath)
    ELSE PassThrough

\* POST of the auth route: the status of the response and whether it sets
\* the cookie.
POST(body, appPassword) ==
    IF ~body.json THEN [status |-> 500, setsCookie |-> FALSE]
    ELSE IF Falsy(body.password) THEN [status |-> 400, setsCookie |-> FALSE]
    ELSE IF Falsy(appPassword) THEN [status |-> 500, setsCookie |-> FALSE]
    ELSE IF body.password = appPassword THEN [status |-> 200, setsCookie |-> TRUE]
    ELSE [status |-> 401, setsCookie |-> FALSE]

\* The browser requests a page: the middleware answers.
PageRequest ==
    /\ session.pc = "Browsing"
    /\ Len(session.history) < MaxRequests
    /\ \E path \in Paths :
           session' =
               [session EXCEPT
                    !.history = Append(@, "page"),
                    !.last = [via |-> "middleware", path |-> path,
                              cookie |-> session.cookie,
                              response |-> middleware(path, session.cookie)]]
    /\ UNCHANGED <<optimizerVars, droplet, wrapper, calculator>>

\* The browser posts a password to the auth route and keeps the cookie the
\* response sets.
LoginPost ==
    /\ session.pc = "Browsing"
    /\ Len(session.history) < MaxRequests
    /\ \E body \in Bodies : \E response \in {POST(body, session.appPassword)} :
           session' =
               [session EXCEPT
                    !.history = Append(@, IF response.setsCookie
                                          THEN "login" ELSE "failed login"),
                    !.cookie = IF response.setsCookie THEN <<"true">> ELSE @,
                    !.last = [via |-> "POST", body |-> body,
                              response |-> response]]
    /\ UNCHANGED <<optimizerVars, droplet, wrapper, calculator>>

\* DELETE of the auth route: the response deletes the cookie.
LogoutDelete ==
    /\ session.pc = "Browsing"
    /\ Len(session.history) < MaxRequests
    /\ session' = [session EXCEPT
                       !.history = Append(@, "logout"),
                       !.cookie = <<>>,
                       !.last = [via |-> "DELETE",
                                 response |-> [status |-> 200]]]
    /\ UNCHANGED <<optimizerVars, droplet, wrapper, calculator>>

\* A browser with any cookie it may hold from before, and the server's
\* environment.  history lists the requests made; last is the latest
\* request and its response.
InitSession ==
    /\ OptimizerNotCalled
    /\ DropletIdle /\ WrapperIdle /\ CalculatorIdle
    /\ \E cookie \in CookieValues : \E appPassword \in AppPasswords :
           session = [pc |-> "Browsing", cookie |-> cookie,
                      appPassword |-> appPassword, history |-> <<>>,
                      last |-> [via |-> "none"]]

NextSession == PageRequest \/ LoginPost \/ LogoutDelete

SessionSpec == InitSession /\ [][NextSession]_vars

(***************************************************************************)
(* Properties.  evaluations[1] is the evaluation of the unmodified input;  *)
(* evaluations[k], k >= 2, is the evaluation of loop iteration k - 1.      *)
(***************************************************************************)
HasReturned == returned # Null

Outcomes == {"Compliant", "Diverging", "ExhaustedIterations"}

LoopEvaluations == 2..Len(evaluations)

IsCompliant(r) == ~r.threw /\ r.complianceStatus.emissionLimitsMet

InitiallyNonCompliant ==
    /\ Len(evaluations) >= 1
    /\ ~evaluations[1].results.threw
    /\ ~evaluations[1].results.complianceStatus.emissionLimitsMet

\* C1: once the unmodified input has been evaluated as compliant, the call
\* has returned iterations = 0, convergenceReached = true, that evaluation as
\* results and the input as optimizedInput, and the initial evaluation is the
\* only evaluation there is: no loop iteration ran.
C1_InitialCompliantReturnsAtOnce ==
    (Len(evaluations) >= 1 /\ IsCompliant(evaluations[1].results)) =>
        /\ evaluations[1].input = input
        /\ Len(evaluations) = 1
        /\ pc = "Compliant"
        /\ HasReturned
        /\ returned.iterations = 0
        /\ returned.convergenceReached
        /\ returned.results = evaluations[1].results
        /\ returned.optimizedInput = input

C1_Witness ==
    /\ pc = "Compliant"
    /\ Len(evaluations) = 1
    /\ returned.iterations = 0
    /\ input.settings.regulatoryFramework = "EU"
    /\ input.pollutant.type = "SO2"

\* C2: after a non-compliant initial evaluation, a loop iteration whose
\* evaluation is compliant is the last evaluation of the run, and the call has
\* returned convergenceReached = true, that iteration's index as iterations,
\* and that iteration's results and parameter set.
C2_StopsAtFirstCompliantIteration ==
    \A k \in LoopEvaluations :
        IsCompliant(evaluations[k].results) =>
            /\ InitiallyNonCompliant
            /\ k = Len(evaluations)
            /\ evaluations[k].iteration = k - 1
            /\ \A j \in 2..(k - 1) : ~IsCompliant(evaluations[j].results)
            /\ pc = "Compliant"
            /\ HasReturned
            /\ returned.convergenceReached
            /\ returned.iterations = evaluations[k].iteration
            /\ returned.results = evaluations[k].results
            /\ returned.optimizedInput = evaluations[k].input

C2_Witness ==
    /\ pc = "Compliant"
    /\ Len(evaluations) = 2
    /\ returned.iterations = 1
    /\ returned.optimizedInput # input

\* C3: a return with convergenceReached = false after at least one loop
\* iteration hands back the results of the earliest loop iteration whose
\* outlet concentration is the minimum over all loop iterations evaluated.
C3_ReturnsBestLoopResult ==
    (HasReturned /\ ~returned.convergenceReached /\ Len(evaluations) >= 2) =>
        \E k \in LoopEvaluations :
            /\ returned.results = evaluations[k].results
            /\ \A j \in LoopEvaluations :
                   ~Lt(evaluations[j].results.outletConcentration,
                       evaluations[k].results.outletConcentration)
            /\ \A j \in 2..(k - 1) :
                   /\ Gt(evaluations[j].results.outletConcentration,
                         evaluations[k].results.outletConcentration)
                   /\ evaluations[j].results # returned.results

\* Two loop iterations with equal outlets and different results: the first
\* one is returned.
C3_Witness ==
    /\ pc = "ExhaustedIterations"
    /\ Len(evaluations) = 3
    /\ evaluations[2].results.outletConcentration =
           evaluations[3].results.outletConcentration
    /\ evaluations[2].results # evaluations[3].results
    /\ returned.results = evaluations[2].results

\* C4: a call with maxIterations >= 1 whose initial evaluation is
\* non-compliant returns only after at least one loop iteration, and returns
\* either compliant results with convergenceReached = true or
\* convergenceReached = false with a non-empty log.
C4_AtLeastOneIteration ==
    (HasReturned /\ InitiallyNonCompliant /\ maxIterations >= 1) =>
        /\ Len(evaluations) >= 2
        /\ \/ /\ returned.convergenceReached
              /\ IsCompliant(returned.results)
           \/ /\ ~returned.convergenceReached
              /\ Len(returned.optimizationLog) > 0

C4_Witness ==
    /\ HasReturned
    /\ InitiallyNonCompliant
    /\ maxIterations >= 1
    /\ ~returned.convergenceReached
    /\ Len(evaluations) >= 2

\* C5 (as claimed): the returned iterations is the number of loop iterations
\* executed and lies in 0..maxIterations.
C5_IterationsCountsExecuted ==
    HasReturned =>
        /\ returned.iterations = Len(evaluations) - 1
        /\ 0 <= returned.iterations
        /\ returned.iterations <= maxIterations

C7_NonConvergenceIsNotAnError ==
    Lookup(input.pollutant.type) = "entry" =>
        /\ pc # "Threw"
        /\ pc \in Outcomes => HasReturned
        /\ HasReturned =>
               /\ returned.results # Null
               /\ ~returned.results.threw
               /\ returned.convergenceReached \in BOOLEAN

\* A budget of zero: no iteration ran, the initial results are returned.
C7_Witness ==
    /\ pc = "ExhaustedIterations"
    /\ maxIterations = 0
    /\ Len(evaluations) = 1
    /\ ~returned.convergenceReached
    /\ returned.results = evaluations[1].results

\* outlet = inlet * (1 - targetEfficiency) and 0 <= outlet <= inlet, stated
\* on the numerators and denominators.
MassBalance(in, r) ==
    /\ r.outletConcentration.d > 0
    /\ r.outletConcentration.n * in.pollutant.inletConcentration.d
         * in.pollutant.targetEfficiency.d
       = in.pollutant.inletConcentration.n
         * (in.pollutant.targetEfficiency.d - in.pollutant.targetEfficiency.n)
         * r.outletConcentration.d
    /\ r.outletConcentration.n >= 0
    /\ r.outletConcentration.n * in.pollutant.inletConcentration.d
         <= in.pollutant.inletConcentration.n * r.outletConcentration.d

\* C8: for an input with inletConcentration > 0 and 0 <= targetEfficiency <= 1,
\* every evaluation (the initial one, every loop iteration's with the
\* efficiency that iteration evaluates, and the returned pair) has
\* outlet = inlet * (1 - targetEfficiency) and 0 <= outlet <= inlet.
C8_MassBalance ==
    (/\ Gt(input.pollutant.inletConcentration, I(0))
     /\ Le(I(0), input.pollutant.targetEfficiency)
     /\ Le(input.pollutant.targetEfficiency, I(1))) =>
        /\ \A k \in 1..Len(evaluations) :
               ~evaluations[k].results.threw =>
                   MassBalance(evaluations[k].input, evaluations[k].results)
        /\ HasReturned => MassBalance(returned.optimizedInput, returned.results)

\* A loop iteration evaluated with the pinned efficiency.
C8_Witness ==
    /\ HasReturned
    /\ Len(evaluations) = 2
    /\ evaluations[2].input.pollutant.targetEfficiency = requiredEfficiency
    /\ requiredEfficiency # input.pollutant.targetEfficiency
    /\ returned.results = evaluations[2].results

\* The emission-limit table of a framework: the evaluator's for EU; for US
\* the only table the program has, the optimizer's.
FrameworkLimit(framework, type) ==
    IF framework = "EU" THEN euLimits(type) ELSE usLimitsOpt(type)

\* C9 (as claimed): in either framework emissionLimitsMet is false exactly
\* when the pollutant has a table entry and the outlet exceeds it.
C9_LimitsMetFollowsTable ==
    \A k \in 1..Len(evaluations) :
        ~evaluations[k].results.threw =>
            (evaluations[k].results.complianceStatus.emissionLimitsMet
             <=> ~(/\ evaluations[k].input.pollutant.type \in PollutantKeys
                   /\ Gt(evaluations[k].results.outletConcentration,
                         FrameworkLimit(
                             evaluations[k].input.settings.regulatoryFramework,
                             evaluations[k].input.pollutant.type))))

\* C10 (as claimed): with a pollutant type that has no entry in the pollutant
\* table the call throws at the first evaluation and returns nothing.
C10_UnknownPollutantThrows ==
    input.pollutant.type \notin PollutantKeys =>
        /\ ~HasReturned
        /\ pc \in {"Initial", "Threw"}
        /\ \A k \in 1..Len(evaluations) : evaluations[k].results.threw

\* A result number that is neither NaN nor +-Infinity; the KGa correlation is
\* a finite positive number.
IsFiniteField(v) == IF "correlation" \in DOMAIN v THEN TRUE ELSE IsFinite(v)

\* C11 (as claimed): an evaluation of an input with gas velocity 0, KGa 0 or
\* target efficiency 0 or 1 (NTU 0) does not throw, and no field of its result
\* is NaN or Infinity; with gas velocity 0 the interfacial area is 0.
C11_DegenerateInputGivesFiniteFields ==
    \A k \in 1..Len(evaluations) :
        evaluations[k].input.pollutant.type \in PollutantKeys =>
            /\ ~evaluations[k].results.threw
            /\ IsFiniteField(evaluations[k].results.outletConcentration)
            /\ IsFiniteField(evaluations[k].results.overallKGa)
            /\ IsFiniteField(evaluations[k].results.interfacialArea)
            /\ IsFiniteField(evaluations[k].results.liquidRate)
            /\ IsFiniteField(evaluations[k].results.towerArea)
            /\ evaluations[k].input.tower.gasVelocity = I(0) =>
                   evaluations[k].results.interfacialArea = I(0)

\* C14 (as claimed): whenever the kgaOverride field is present, whatever its
\* value, the overallKGa of the result is that value; when it is absent the
\* overallKGa is the value of the correlation branch.
C14_OverrideUsedVerbatim ==
    \A k \in 1..Len(evaluations) :
        ~evaluations[k].results.threw =>
            IF evaluations[k].input.tower.kgaOverride # Undefined
            THEN evaluations[k].results.overallKGa =
                     evaluations[k].input.tower.kgaOverride
            ELSE \/ "correlation" \in DOMAIN evaluations[k].results.overallKGa
                 \/ evaluations[k].results.overallKGa = I(0)

\* The calls that have ended so far, the running one included once it ended.
EndedCalls ==
    IF pc \in Outcomes \/ pc = "Threw" THEN Append(calls, EndedCall) ELSE calls

HasCalculation(str) ==
    \E i, j, p, q, l \in 1..Len(str) :
        /\ i <= j /\ j < p /\ p < q /\ q <= l
        /\ i = 1 \/ str[i - 1] \notin WordChars
        /\ \A x \in i..j : str[x] \in Digits
        /\ \A x \in (j + 1)..(p - 1) : str[x] \in Spaces
        /\ str[p] \in Operators
        /\ \A x \in (p + 1)..(q - 1) : str[x] \in Spaces
        /\ \A x \in q..l : str[x] \in Digits
        /\ l = Len(str) \/ str[l + 1] \notin WordChars

\* C15 (as claimed): what is placed in the report contains no calculation
\* expression, and a response without one is placed unchanged.
C15_ReportHasNoCalculation ==
    aiAnalysis # <<>> =>
        /\ ~HasCalculation(aiAnalysis[1])
        /\ ~HasCalculation(trim(aiResponse)) => aiAnalysis[1] = trim(aiResponse)

\* The kinds of the log lines written by the second and third strategy, by
\* the divergence exit and after a loop that did not converge.
LaterPhaseLines ==
    {"Adjusting gas velocity", "Reducing droplet size", "Optimization diverging",
     "Could not achieve full compliance", "Using best result"}

\* C16: in a call with maxIterations >= 3 whose initial evaluation is
\* non-compliant, the only loop iteration is iteration 1; it is a phase-1
\* iteration (L/G ratio scaled by 1.1) that evaluates the efficiency
\* 1 - 0.9 * limit / inlet, has the outlet 0.9 * limit and is compliant, and
\* the call returns there with iterations = 1 and convergenceReached = true;
\* no phase-2 or phase-3 iteration runs, and the call ends neither by
\* divergence nor by exhaustion.
C16_ConvergesAtIterationOne ==
    (InitiallyNonCompliant /\ maxIterations >= 3) =>
        /\ pc \in {"Evaluating", "Compliant"}
        /\ pc = "Evaluating" =>
               Len(evaluations) = 1 /\ iterations = 1
               /\ requiredEfficiency =
                      Sub(I(1), Div(Mul(FrameworkLimit(
                                            input.settings.regulatoryFramework,
                                            input.pollutant.type), Num(9, 10)),
                                    input.pollutant.inletConcentration))
        /\ pc = "Compliant" =>
               /\ Len(evaluations) = 2
               /\ evaluations[2].iteration = 1
               /\ evaluations[2].input.pollutant.targetEfficiency =
                      requiredEfficiency
               /\ evaluations[2].input.tower.lgRatio =
                      Mul(input.tower.lgRatio, Num(11, 10))
               /\ evaluations[2].results.outletConcentration =
                      Mul(FrameworkLimit(input.settings.regulatoryFramework,
                                         input.pollutant.type), Num(9, 10))
               /\ IsCompliant(evaluations[2].results)
               /\ returned.iterations = 1
               /\ returned.convergenceReached
               /\ returned.results = evaluations[2].results
        /\ \A n \in 1..Len(log) : log[n].kind \notin LaterPhaseLines

C16_Witness ==
    /\ InitiallyNonCompliant
    /\ maxIterations = 3
    /\ pc = "Compliant"
    /\ returned.iterations = 1
    /\ evaluations[2].results.outletConcentration = I(180)
    /\ evaluations[1].results.outletConcentration = I(750)

\* The phase of loop iteration i as the claim states it, in integers.
ClaimedPhase(i, max) ==
    IF 10 * i <= 4 * max THEN 1 ELSE IF 10 * i <= 7 * max THEN 2 ELSE 3

PhaseLine(phase) ==
    CASE phase = 1 -> "Increasing L/G ratio"
      [] phase = 2 -> "Adjusting gas velocity"
      [] phase = 3 -> "Reducing droplet size"

\* the strategy lines the log holds for iteration i
StrategyLines(i) ==
    {n \in 1..Len(log) :
        /\ log[n].iteration = i
        /\ log[n].kind \in {PhaseLine(1), PhaseLine(2), PhaseLine(3)}}

\* C17: the phase of an iteration is a function of i and maxIterations alone
\* (1 up to 0.4 * maxIterations, 2 up to 0.7 * maxIterations, 3 after), so
\* the phases of a run never go back; and every loop iteration evaluated has
\* written one strategy line, that of its phase, and its parameter set
\* differs from the previous one only in the field of its phase: lgRatio
\* with targetEfficiency pinned (1), gasVelocity (2) or dropletSize (3).
C17_OnePhasePerIteration ==
    /\ \A i \in 1..maxIterations :
           /\ InPhase1(i, maxIterations) <=> ClaimedPhase(i, maxIterations) = 1
           /\ (~InPhase1(i, maxIterations) /\ InPhase2(i, maxIterations))
                  <=> ClaimedPhase(i, maxIterations) = 2
           /\ \A j \in 1..i :
                  ClaimedPhase(j, maxIterations) <= ClaimedPhase(i, maxIterations)
    /\ \A k \in LoopEvaluations :
       \A phase \in {ClaimedPhase(k - 1, maxIterations)} :
       \A prev \in {evaluations[k - 1].input} :
       \A cur \in {evaluations[k].input} :
           /\ evaluations[k].iteration = k - 1
           /\ Cardinality(StrategyLines(k - 1)) = 1
           /\ \A n \in StrategyLines(k - 1) : log[n].kind = PhaseLine(phase)
           /\ phase = 1 =>
                  /\ cur = [prev EXCEPT
                               !.tower.lgRatio = cur.tower.lgRatio,
                               !.pollutant.targetEfficiency = requiredEfficiency]
           /\ phase = 2 =>
                  cur = [prev EXCEPT !.tower.gasVelocity = cur.tower.gasVelocity]
           /\ phase = 3 =>
                  cur = [prev EXCEPT !.tower.dropletSize = cur.tower.dropletSize]

\* A phase-2 iteration followed by a phase-3 iteration.
C17_Witness ==
    /\ pc = "ExhaustedIterations"
    /\ maxIterations = 2
    /\ Len(evaluations) = 3
    /\ evaluations[2].input.tower.gasVelocity # input.tower.gasVelocity
    /\ evaluations[3].input.tower.gasVelocity =
           evaluations[2].input.tower.gasVelocity
    /\ evaluations[3].input.tower.dropletSize # input.tower.dropletSize

\* A budget beyond those of the calls enumerated, at which the floors of the
\* two factors are reached.
FactorBudgets == {40}

\* gasVelocity and dropletSize within 0.5 and 1 times the original, lgRatio
\* at least the original
ScaledWithin(orig, cur) ==
    /\ Le(Mul(orig.tower.gasVelocity, Num(1, 2)), cur.tower.gasVelocity)
    /\ Le(cur.tower.gasVelocity, orig.tower.gasVelocity)
    /\ Le(Mul(orig.tower.dropletSize, Num(1, 2)), cur.tower.dropletSize)
    /\ Le(cur.tower.dropletSize, orig.tower.dropletSize)
    /\ Le(orig.tower.lgRatio, cur.tower.lgRatio)

\* C18: every parameter set evaluated in the loop, and the optimizedInput
\* returned, has gasVelocity and dropletSize between 0.5 and 1 times the
\* input's and lgRatio at least the input's; the field an iteration rewrites
\* is the input's value times the factor of that iteration (lgRatio times
\* 1 + 0.1 * i in phase 1), never the previous value times it; and for every
\* budget the factors of phase 2 and phase 3 lie between 0.5 and 1.
C18_ScalingWithinBounds ==
    /\ \A k \in LoopEvaluations :
       \A phase \in {ClaimedPhase(k - 1, maxIterations)} :
       \A cur \in {evaluations[k].input} :
           /\ ScaledWithin(inputAtCall, cur)
           /\ phase = 1 =>
                  cur.tower.lgRatio =
                      Mul(inputAtCall.tower.lgRatio, Num(10 + (k - 1), 10))
           /\ phase = 2 =>
                  cur.tower.gasVelocity =
                      Mul(inputAtCall.tower.gasVelocity,
                          velocityFactor(k - 1, maxIterations))
           /\ phase = 3 =>
                  cur.tower.dropletSize =
                      Mul(inputAtCall.tower.dropletSize,
                          dropletFactor(k - 1, maxIterations))
    /\ HasReturned => ScaledWithin(inputAtCall, returned.optimizedInput)
    /\ \A max \in FactorBudgets \cup {maxIterations} : \A i \in 1..max :
           /\ ClaimedPhase(i, max) = 2 =>
                  \A f \in {velocityFactor(i, max)} :
                      f.d > 0 /\ f.d <= 2 * f.n /\ f.n <= f.d
           /\ ClaimedPhase(i, max) = 3 =>
                  \A f \in {dropletFactor(i, max)} :
                      f.d > 0 /\ f.d <= 2 * f.n /\ f.n <= f.d

\* Gas velocity scaled by 0.99 in iteration 1 and droplet size by 0.94 in
\* iteration 2, both from the input's values.
C18_Witness ==
    /\ pc = "ExhaustedIterations"
    /\ maxIterations = 2
    /\ Len(evaluations) = 3
    /\ inputAtCall.tower.gasVelocity = I(3)
    /\ evaluations[2].input.tower.gasVelocity = Num(297, 100)
    /\ evaluations[3].input.tower.dropletSize = Num(94, 125)
    /\ returned.optimizedInput.tower.gasVelocity = Num(297, 100)

\* C20: whenever the call has returned, by whatever path, the results
\* returned are the evaluation of the optimizedInput returned, and the pair
\* is the pair of one evaluation the call made.
C20_ResultsBelongToOptimizedInput ==
    HasReturned =>
        /\ returned.results = calculateSprayTower(returned.optimizedInput)
        /\ \E k \in 1..Len(evaluations) :
               /\ evaluations[k].input = returned.optimizedInput
               /\ evaluations[k].results = returned.results

\* The best pair is that of iteration 1 while the last evaluation is that of
\* iteration 2, with other parameters and other results.
C20_Witness ==
    /\ pc = "ExhaustedIterations"
    /\ Len(evaluations) = 3
    /\ returned.optimizedInput = evaluations[2].input
    /\ returned.results = evaluations[2].results
    /\ evaluations[3].input # evaluations[2].input
    /\ evaluations[3].results # evaluations[2].results

\* C21: whenever the call has returned, convergenceReached is true exactly
\* when the results returned have emissionLimitsMet = true.
C21_ConvergedIffCompliant ==
    HasReturned =>
        (returned.convergenceReached
             <=> returned.results.complianceStatus.emissionLimitsMet)

\* A non-compliant best result returned with convergenceReached = false.
C21_Witness ==
    /\ HasReturned
    /\ Len(evaluations) >= 2
    /\ ~returned.convergenceReached
    /\ ~returned.results.complianceStatus.emissionLimitsMet
    /\ returned.results = bestResults

\* C22: once the call has computed the regulatory limit, the framework is one
\* whose evaluator has a table with the pollutant, the limit is the
\* evaluator's own (neither a fallback default nor a US value), every
\* evaluation of the run is reported compliant exactly when its outlet does
\* not exceed that limit, and the target lies in the compliant region.
C22_SameLimitAsEvaluator ==
    emissionLimits # Null =>
        /\ input.settings.regulatoryFramework = "EU"
        /\ input.pollutant.type \in PollutantKeys
        /\ emissionLimits = euLimits(input.pollutant.type)
        /\ targetOutletConcentration = Mul(emissionLimits, Num(9, 10))
        /\ Le(targetOutletConcentration, emissionLimits)
        /\ \A k \in 1..Len(evaluations) :
               /\ ~evaluations[k].results.threw
               /\ evaluations[k].results.complianceStatus.emissionLimitsMet
                      <=> Le(evaluations[k].results.outletConcentration,
                             emissionLimits)

\* A run with the limit 10 of HCl: above it at first, at the target 9 after.
C22_Witness ==
    /\ emissionLimits = I(10)
    /\ Len(evaluations) = 2
    /\ Gt(evaluations[1].results.outletConcentration, emissionLimits)
    /\ evaluations[2].results.outletConcentration = I(9)
    /\ evaluations[2].results.complianceStatus.emissionLimitsMet

\* the log holds, for loop iteration i, the strategy line of its phase
\* directly followed by its result line
HasIterationLines(i) ==
    \E n \in 1..(Len(log) - 1) :
        /\ log[n] = LogLine(PhaseLine(ClaimedPhase(i, maxIterations)), i)
        /\ log[n + 1] = LogLine("Result", i)

\* C23: a step of the call only appends to the log (what it held stays, in
\* place); at every point the log holds for every loop iteration evaluated
\* its strategy line directly followed by its result line, and its entries
\* are in increasing iteration order; and the log handed to the caller is the
\* whole log and is not empty.
C23_LogAppendOnly ==
    /\ [][/\ Len(log') >= Len(log)
          /\ SubSeq(log', 1, Len(log)) = log]_vars
    /\ [](\A k \in LoopEvaluations : HasIterationLines(k - 1))
    /\ [](\A n \in 1..(Len(log) - 1) : log[n].iteration <= log[n + 1].iteration)
    /\ [](HasReturned =>
              /\ returned.optimizationLog = log
              /\ Len(returned.optimizationLog) > 0)

\* Two loop iterations logged, then the two lines of a loop that did not
\* converge.
C23_Witness ==
    /\ pc = "ExhaustedIterations"
    /\ Len(evaluations) = 3
    /\ Len(log) = 11
    /\ log[6] = LogLine("Adjusting gas velocity", 1)
    /\ log[8] = LogLine("Reducing droplet size", 2)
    /\ log[10].kind = "Could not achieve full compliance"

\* One of the three guards of the height applies to the result r.
HeightGuarded(r) ==
    \/ ~GtZero(r.overallKGa)
    \/ ~GtZero(r.numberOfTransferUnits)
    \/ ~Gt(r.towerArea, I(0))

\* C24 (as claimed): an evaluation of a pollutant of the table does not throw;
\* its requiredHeight and gasResidenceTime are 0 when overallKGa <= 0, or
\* NTU <= 0, or towerArea <= 0; otherwise requiredHeight is strictly positive;
\* NTU is 0 when the outlet is 0 or the target efficiency is 0; and
\* gasResidenceTime is 0 when the gas velocity is 0.
C24_HeightZeroGuards ==
    \A k \in 1..Len(evaluations) :
        evaluations[k].input.pollutant.type \in PollutantKeys =>
            \A r \in {evaluations[k].results} :
                /\ ~r.threw
                /\ HeightGuarded(r) =>
                       r.requiredHeight = I(0) /\ r.gasResidenceTime = I(0)
                /\ ~HeightGuarded(r) => GtZero(r.requiredHeight)
                /\ (\/ r.outletConcentration = I(0)
                    \/ evaluations[k].input.pollutant.targetEfficiency = I(0)) =>
                       r.numberOfTransferUnits = I(0)
                /\ evaluations[k].input.tower.gasVelocity = I(0) =>
                       r.gasResidenceTime = I(0)

\* C25 (as claimed): the loop makes at most 10 passes; it returns after fewer
\* only when the last two estimates differ by less than 0.001; the terminal
\* velocity reported is the last estimate computed; the relative velocity is
\* max(0, terminal velocity - gas velocity) and is >= 0; and the contact time
\* is 0 when the relative velocity is 0.
C25_DropletLoopBounded ==
    droplet.pc \in {"Loop", "Returned"} =>
        /\ droplet.passes <= 10
        /\ Len(droplet.estimates) = droplet.passes + 1
        /\ droplet.pc = "Returned" =>
               /\ droplet.passes < 10 =>
                      Converged(droplet.estimates[droplet.passes + 1],
                                droplet.estimates[droplet.passes])
               /\ droplet.passes >= 1
               /\ droplet.terminalVelocity = droplet.estimates[droplet.passes + 1]
               /\ droplet.relativeVelocity =
                      Max(I(0), Sub(droplet.terminalVelocity, droplet.gasVelocity))
               /\ Le(I(0), droplet.relativeVelocity)
               /\ droplet.relativeVelocity = I(0) => droplet.contactTime = I(0)

\* cur differs from orig at most in the four fields the optimizer rewrites.
OnlySearchFieldsDiffer(orig, cur) ==
    cur = [orig EXCEPT !.tower.lgRatio = cur.tower.lgRatio,
                       !.tower.gasVelocity = cur.tower.gasVelocity,
                       !.tower.dropletSize = cur.tower.dropletSize,
                       !.pollutant.targetEfficiency = cur.pollutant.targetEfficiency]

\* C26: every parameter set evaluated, and the optimizedInput returned,
\* equals the input in gasStream, settings, pollutant.type,
\* pollutant.inletConcentration and every tower field other than lgRatio,
\* gasVelocity and dropletSize; and a loop iteration keeps, from the
\* parameter set before it, the value of each of the four fields that is not
\* the field of its own phase.
C26_OnlySearchFieldsChange ==
    /\ \A k \in 1..Len(evaluations) :
           OnlySearchFieldsDiffer(inputAtCall, evaluations[k].input)
    /\ HasReturned => OnlySearchFieldsDiffer(inputAtCall, returned.optimizedInput)
    /\ \A k \in LoopEvaluations :
       \A phase \in {ClaimedPhase(k - 1, maxIterations)} :
       \A prev \in {evaluations[k - 1].input} :
       \A cur \in {evaluations[k].input} :
           /\ phase # 1 =>
                  /\ cur.tower.lgRatio = prev.tower.lgRatio
                  /\ cur.pollutant.targetEfficiency = prev.pollutant.targetEfficiency
           /\ phase # 2 => cur.tower.gasVelocity = prev.tower.gasVelocity
           /\ phase # 3 => cur.tower.dropletSize = prev.tower.dropletSize

\* The gas velocity set in iteration 1 (phase 2) is still there in
\* iteration 2 (phase 3), which sets the droplet size.
C26_Witness ==
    /\ Len(evaluations) = 3
    /\ maxIterations = 2
    /\ evaluations[2].input.tower.gasVelocity # inputAtCall.tower.gasVelocity
    /\ evaluations[3].input.tower.gasVelocity =
           evaluations[2].input.tower.gasVelocity
    /\ evaluations[3].input.tower.dropletSize # inputAtCall.tower.dropletSize
    /\ evaluations[3].input.tower.kgaOverride = inputAtCall.tower.kgaOverride
    /\ evaluations[3].input.gasStream = inputAtCall.gasStream

\* The second call of a pair has ended: the first is calls[1].
PairEnded == Len(calls) = 1 /\ (pc \in Outcomes \/ pc = "Threw")

\* C27: of two inputs that differ only in settings.unitSystem, every
\* evaluation gives the same outletConcentration and emissionLimitsMet, and
\* the two optimizer runs with the same budget end alike with the same
\* iterations, convergenceReached and optimized lgRatio, gasVelocity,
\* dropletSize and targetEfficiency.
C27_UnitSystemDoesNotInterfere ==
    PairEnded =>
        /\ calls[1].input = [inputAtCall EXCEPT !.settings.unitSystem =
                                 calls[1].input.settings.unitSystem]
        /\ calls[1].input.settings.unitSystem # inputAtCall.settings.unitSystem
        /\ calls[1].outcome = pc
        /\ Len(calls[1].evaluations) = Len(evaluations)
        /\ \A k \in 1..Len(evaluations) :
           \A a \in {calls[1].evaluations[k].results} :
           \A b \in {evaluations[k].results} :
               /\ a.threw = b.threw
               /\ ~a.threw =>
                      /\ a.outletConcentration = b.outletConcentration
                      /\ a.complianceStatus.emissionLimitsMet =
                             b.complianceStatus.emissionLimitsMet
        /\ HasReturned =>
           \A a \in {calls[1].returned} :
               /\ a.iterations = returned.iterations
               /\ a.convergenceReached = returned.convergenceReached
               /\ a.optimizedInput.tower.lgRatio =
                      returned.optimizedInput.tower.lgRatio
               /\ a.optimizedInput.tower.gasVelocity =
                      returned.optimizedInput.tower.gasVelocity
               /\ a.optimizedInput.tower.dropletSize =
                      returned.optimizedInput.tower.dropletSize
               /\ a.optimizedInput.pollutant.targetEfficiency =
                      returned.optimizedInput.pollutant.targetEfficiency

\* Both runs of a pair optimized, and the area they report differs by the
\* unit conversion while the outlet concentration does not.
C27_Witness ==
    /\ PairEnded
    /\ HasReturned
    /\ returned.iterations >= 1
    /\ returned.optimizedInput.tower # inputAtCall.tower
    /\ calls[1].returned.results.towerArea # returned.results.towerArea
    /\ calls[1].returned.results.outletConcentration =
           returned.results.outletConcentration

\* The optimizer called by the wrapper never finds its loop exhausted.
WrapperLoopNeverExhausted ==
    wrapper.pc = "Optimizing" => LoopGuard(iterations, maxIterations) \/ pc # "Evaluating"

\* C28: calculateSprayTowerWithCompliance returns wasOptimized = false
\* exactly when the input as given evaluates as compliant, and then with
\* iterations 0, convergenceReached true, optimizedInput the input and
\* compliant results; otherwise wasOptimized = true with iterations >= 1 and
\* the results, optimizedInput, iterations and convergenceReached that
\* optimizeForCompliance returned for that input and the budget 20; and
\* originalInput is the caller's input.
C28_WrapperReportsOptimization ==
    wrapper.pc = "Returned" =>
        \A info \in {wrapper.enhanced.optimizationInfo} :
            /\ info.originalInput = wrapper.input
            /\ ~info.wasOptimized <=> IsCompliant(calculateSprayTower(wrapper.input))
            /\ ~info.wasOptimized =>
                   /\ info.iterations = 0
                   /\ info.convergenceReached
                   /\ info.optimizedInput = info.originalInput
                   /\ IsCompliant(wrapper.enhanced.results)
            /\ info.wasOptimized =>
                   /\ info.iterations >= 1
                   /\ HasReturned
                   /\ inputAtCall = wrapper.input
                   /\ maxIterations = 20
                   /\ wrapper.enhanced.results = returned.results
                   /\ info.optimizedInput = returned.optimizedInput
                   /\ info.iterations = returned.iterations
                   /\ info.convergenceReached = returned.convergenceReached

\* A non-compliant input came back optimized after one iteration.
C28_Witness ==
    /\ wrapper.pc = "Returned"
    /\ wrapper.enhanced.optimizationInfo.wasOptimized
    /\ wrapper.enhanced.optimizationInfo.iterations = 1
    /\ wrapper.enhanced.optimizationInfo.optimizedInput # wrapper.input
    /\ IsCompliant(wrapper.enhanced.results)

\* What a timer callback leaves in results for the input in.
ResultsFor(in) ==
    IF hasErrors(validateInput(in)) THEN Null
    ELSE IF calculateSprayTower(in).threw THEN Null
    ELSE calculateSprayTower(in)

\* The timers that have run.
Fired == {i \in 1..Len(calculator.timers) : calculator.timers[i].status = "fired"}

\* C29: a timer set for an input that was replaced before the timer fired
\* is cancelled and never runs; a timer that fires validates and evaluates
\* the latest input, stores the results only if validation gave no entry
\* of type error and the evaluation did not throw, and stores null
\* otherwise; so what is stored never comes from an input older than one
\* whose calculation has run.
C29_DebouncedRecalculation ==
    /\ [](calculator.pc = "Mounted" =>
            /\ \A i \in 1..(Len(calculator.timers) - 1) :
                   calculator.timers[i].status # "pending"
            /\ calculator.timers[Len(calculator.timers)].input = calculator.input
            /\ \A i \in Fired : calculator.storedBy >= i
            /\ calculator.storedBy > 0 =>
                   /\ calculator.storedBy \in Fired
                   /\ calculator.results =
                          ResultsFor(calculator.timers[calculator.storedBy].input)
                   /\ calculator.errors =
                          validateInput(calculator.timers[calculator.storedBy].input))
    /\ [][calculator.pc = "Mounted" =>
            /\ \A i \in 1..Len(calculator.timers) :
                   calculator.timers[i].status = "cancelled" =>
                       calculator'.timers[i].status = "cancelled"
            /\ \A i \in 1..Len(calculator.timers) :
                   (/\ calculator.timers[i].status = "pending"
                    /\ calculator'.timers[i].status = "fired") =>
                       /\ calculator.timers[i].input = calculator.input
                       /\ calculator'.results = ResultsFor(calculator.input)
                       /\ calculator'.errors = validateInput(calculator.input)]_vars

\* A first timer was cancelled by a change of the input, the timer of the
\* changed input fired and stored results; and the input was then changed to
\* one that validation rejects, whose timer fired and stored null.
C29_Witness ==
    /\ calculator.pc = "Mounted"
    /\ Len(calculator.timers) = 3
    /\ calculator.timers[1].status = "cancelled"
    /\ calculator.timers[2].status = "fired"
    /\ ResultsFor(calculator.timers[2].input) # Null
    /\ calculator.timers[1].input # calculator.timers[2].input
    /\ calculator.timers[3].status = "fired"
    /\ hasErrors(calculator.errors)
    /\ calculator.results = Null

\* The latest request was answered by the middleware for a path that is
\* not under /api/ or /_next/ and has no '.'.
GatedRequest ==
    /\ session.pc = "Browsing"
    /\ session.last.via = "middleware"
    /\ ~startsWith(session.last.path, ApiPrefix)
    /\ ~startsWith(session.last.path, NextPrefix)
    /\ ~includes(session.last.path, ".")

\* A gated request that is not passed through is redirected: to / when it
\* is /login with the cookie 'true', to /login otherwise.
RedirectedOtherwise ==
    session.last.response # PassThrough =>
        session.last.response =
            IF session.last.cookie = <<"true">> /\ session.last.path = LoginPath
            THEN Redirect(RootPath)
            ELSE Redirect(LoginPath)

\* The cookie becomes 'true' only by a login POST whose password is
\* APP_PASSWORD, and a DELETE leaves no cookie.
CookieLifecycle ==
    [][session.pc = "Browsing" =>
          /\ (session'.cookie = <<"true">> /\ session.cookie # <<"true">>) =>
                 /\ session'.last.via = "POST"
                 /\ session'.last.body.json
                 /\ session'.last.body.password = session.appPassword
          /\ session'.cookie # session.cookie =>
                 session'.last.via \in {"POST", "DELETE"}
          /\ session'.last.via = "DELETE" => session'.cookie = <<>>]_vars

\* C30: a request whose path is not under /api/ or /_next/ and has no '.'
\* is passed through only if the app-authenticated cookie is 'true' and the
\* path is not /login, or the path is /login and the cookie is absent;
\* every other such request is redirected, to /login when unauthenticated
\* and to / for /login when authenticated.  The cookie is set only by a
\* login POST whose password is APP_PASSWORD and is cleared by DELETE.
C30_SessionGate ==
    /\ [](GatedRequest =>
            /\ session.last.response = PassThrough <=>
                   \/ /\ session.last.cookie = <<"true">>
                      /\ session.last.path # LoginPath
                   \/ /\ session.last.path = LoginPath
                      /\ session.last.cookie = <<>>
            /\ RedirectedOtherwise)
    /\ CookieLifecycle

\* C30 as it holds: the same, with /login passed through whenever the
\* cookie is not 'true', be it absent or of another value.
C30_SessionGate_Amended ==
    /\ [](GatedRequest =>
            /\ session.last.response = PassThrough <=>
                   \/ /\ session.last.cookie = <<"true">>
                      /\ session.last.path # LoginPath
                   \/ /\ session.last.path = LoginPath
                      /\ session.last.cookie # <<"true">>
            /\ RedirectedOtherwise)
    /\ CookieLifecycle

\* After a login and a logout, the page / is redirected to /login again.
C30_Witness ==
    /\ session.pc = "Browsing"
    /\ session.history = <<"login", "logout", "page">>
    /\ session.last.path = RootPath
    /\ session.last.cookie = <<>>
    /\ session.last.response = Redirect(LoginPath)

=============================================================================
